---- MODULE Spec2Model ----
(***************************************************************************)
(* Credential vault core of ToolBox: the master-password unlock flow of    *)
(* the password manager and of the date counter, the process-wide session  *)
(* key, and the encrypt/decrypt helpers of PasswordEncryption.             *)
(*                                                                         *)
(* Byte strings are modelled as triples of strings <<kind, a, b>>:         *)
(*   <<"salt", s, "">>      32 random bytes drawn by os.urandom            *)
(*   <<"pbkdf2", p, s>>     PBKDF2-HMAC-SHA256(password p, salt s)         *)
(*   <<"default", "", "">>  the fallback key built from the install path   *)
(*   <<"none", "", "">>     Python's None                                  *)
(* PBKDF2 is taken to be collision-free on the passwords and salts used.   *)
(* base64 text is the pair <<"b64", bytes>>; <<"b64stray", bytes>> is that  *)
(* text with characters outside the alphabet added, which b64decode        *)
(* discards, and <<"b64cut", bytes>> is that text cut short, on which       *)
(* b64decode raises.  A str is <<"str", code       *)
(* points>>; the bytes handed to AES are sequences of 0..255.              *)
(***************************************************************************)
EXTENDS Integers, Sequences, FiniteSets, TLC

VARIABLES
    tables,           \* names of the tables that exist in toolbox.db
    master,           \* rows of master_passwords, in id order
    rows,             \* rows[t]: the rows of tool t's record table
    categories,       \* rows of the categories table
    sessionKey,       \* PasswordEncryption._session_key
    state,            \* position of the running unlock flow
    tool,             \* the tool whose dialog runs the flow
    failed_attempts,  \* the local of _verify_master_password
    rec,              \* master_password_data[0] handed to the verify flow
    lastEvent,        \* what the last handler reported to the user
    submitted,        \* the text fields read by the last submit handler
    wiped,            \* tools whose flow ran the lockout wipe in this process
    open,             \* tools whose dialog was initialised and shown
    cipherCall,       \* last direct call of encrypt/decrypt: <<op, argument>>
    cipherResult,     \* what that call returned or raised
    cipherPrev,       \* the direct call before the last one, and its result
    entered,          \* the title typed into the last record form
    view,             \* view[t]: the table widget of tool t's dialog
    twin,             \* the two flows run side by side on copies of a store
    info_label,       \* <<n>>: the attempts left shown by the verification prompt
    generated,        \* the last call of generate_password and what it returned
    ordered           \* rows of date_records as (id, order_index, title, date)

vars == <<tables, master, rows, categories, sessionKey, state, tool,
          failed_attempts, rec, lastEvent, submitted, wiped, open,
          cipherCall, cipherResult, cipherPrev, entered, view, twin,
          info_label, generated, ordered>>

flowVars == <<state, tool, failed_attempts, rec, lastEvent, submitted, wiped,
              info_label>>
cipherVars == <<cipherCall, cipherResult, cipherPrev>>
recordVars == <<entered, view>>

(***************************************************************************)
(* Bounds and program constants                                            *)
(***************************************************************************)
MaxRows == 1           \* rows kept per record table
MaxTextLen == 17       \* longest run of 'a' in a text handed to encrypt
MaxListed == 2         \* rows per record table of a store found at start

MaxAttempts == 5       \* while failed_attempts < 5
MinPasswordLength == 8 \* len(master_password) < 8
BlockSize == 16        \* algorithms.AES.block_size / 8, and the IV length
MinLength == 6         \* QInputDialog.getInt(..., 16, 6, 128, 1)
MaxLength == 6         \* longest password asked of the generator
MaxAdded == 3          \* INSERTs into date_records in one run of the model

Tools == {"pm", "dc"}
Passwords == {"", "short7c", "correct-pw", "wrong-pw-1"}

\* A Python str is <<"str", code points>>.
Str(chars) == <<"str", chars>>
EmptyStr == Str(<<>>)
Titles == {EmptyStr, Str(<<32>>), Str(<<32, 116, 233>>), Str(<<116>>)}
RecordPasswords == {EmptyStr, Str(<<112, 32>>)}
DateStr == Str(<<50, 48, 50, 54, 45, 49, 49, 45, 48, 53>>)
IVs == {"iv1", "iv2"}
Salts == {<<"salt", "s1", "">>, <<"salt", "s2", "">>}

None == <<"none", "", "">>
NoToken == <<"b64", <<>>>>
NoResult == [kind |-> "none", token |-> NoToken, text |-> EmptyStr, error |-> ""]
NoTwin == <<>>
NoCall == [op |-> "none", text |-> EmptyStr, token |-> NoToken, key |-> None,
           iv |-> "", noise |-> <<>>]
NoPrev == [call |-> NoCall, result |-> NoResult]
NoPassword == <<>>

Prompting == {"AwaitingFirstPassword", "AwaitingVerification"}

RecordTable(t) == IF t = "pm" THEN "passwords" ELSE "date_records"
DefaultCategories == {"web", "app", "bank", "mail", "social", "other"}

(***************************************************************************)
(* PasswordEncryption                                                      *)
(***************************************************************************)
b64encode(bytes) == <<"b64", bytes>>

\* base64.b64decode(text) returns: validate is off, so characters outside
\* the alphabet are discarded; a text cut short (incorrect padding) and a
\* value that is no text (NULL) raise
Decodable(text) == text[1] \in {"b64", "b64stray"}

b64decode(text) == text[2]

\* PBKDF2HMAC(SHA256, length 32, salt, 100000 iterations).derive(password)
DeriveKey(password, saltBytes) == <<"pbkdf2", password, saltBytes[2]>>

create_master_password_hash(master_password, saltBytes) ==
    [salt |-> b64encode(saltBytes),
     hashed_password |-> b64encode(DeriveKey(master_password, saltBytes))]

\* a verification that compares the password and never reads the salt
verify_without_salt(master_password, salt, hashed_password) ==
    /\ Decodable(hashed_password)
    /\ b64decode(hashed_password)[2] = master_password

\* a verification that accepts every non-empty password
verify_any_password(master_password, salt, hashed_password) ==
    master_password # ""

\* any exception (undecodable text, InvalidKey) makes the result False
verify_master_password(master_password, salt, hashed_password) ==
    IF ~Decodable(salt) \/ ~Decodable(hashed_password)
    THEN FALSE
    ELSE DeriveKey(master_password, b64decode(salt)) = b64decode(hashed_password)

\* the session key derived without the stored salt
derive_key_unsalted(master_password, salt) ==
    DeriveKey(master_password, <<"salt", "", "">>)

derive_key_from_master_password(master_password, salt) ==
    DeriveKey(master_password, b64decode(salt))

DefaultKey == <<"default", "", "">>

get_session_key == sessionKey

\* the fallback key whatever the key slot holds
get_encryption_key_default == DefaultKey

get_encryption_key == IF sessionKey # None THEN sessionKey ELSE DefaultKey

(***************************************************************************)
(* encrypt / decrypt.  Text is UTF-8 encoded byte by byte and PKCS7 padded *)
(* to whole blocks.  AES-CBC works on blocks: the ciphertext block at      *)
(* position idx is the record [key, iv, idx, data], which gives data back  *)
(* under the same key when it follows the block it was chained to, and     *)
(* some other 16 bytes (noise) otherwise.  The IV is the block at idx 0.   *)
(***************************************************************************)
EncodeChar(c) ==
    IF c < 128 THEN <<c>>
    ELSE IF c < 2048 THEN <<192 + (c \div 64), 128 + (c % 64)>>
    ELSE <<224 + (c \div 4096), 128 + ((c \div 64) % 64), 128 + (c % 64)>>

RECURSIVE utf8_encode(_)
utf8_encode(chars) ==
    IF chars = <<>> THEN <<>>
    ELSE EncodeChar(Head(chars)) \o utf8_encode(Tail(chars))

IsContinuation(bytes, i) ==
    i <= Len(bytes) /\ bytes[i] >= 128 /\ bytes[i] < 192

\* [ok, chars]: ok is FALSE where bytes.decode('utf-8') raises
RECURSIVE utf8_decode(_)
utf8_decode(bytes) ==
    IF bytes = <<>> THEN [ok |-> TRUE, chars |-> <<>>]
    ELSE LET b == bytes[1]
             n == IF b < 128 THEN 1
                  ELSE IF b >= 194 /\ b < 224 THEN 2
                  ELSE IF b >= 224 /\ b < 240 THEN 3
                  ELSE 0
             c == IF n = 1 THEN b
                  ELSE IF n = 2 THEN (b - 192) * 64 + (bytes[2] - 128)
                  ELSE (b - 224) * 4096 + (bytes[2] - 128) * 64 + (bytes[3] - 128)
             wellFormed ==
                 /\ n > 0
                 /\ \A i \in 2..n : IsContinuation(bytes, i)
                 /\ n = 3 => (c >= 2048 /\ ~(c >= 55296 /\ c < 57344))
         IN IF ~wellFormed THEN [ok |-> FALSE, chars |-> <<>>]
            ELSE LET rest == utf8_decode(SubSeq(bytes, n + 1, Len(bytes)))
                 IN [ok |-> rest.ok,
                     chars |-> IF rest.ok THEN <<c>> \o rest.chars ELSE <<>>]

\* padding.PKCS7(128).padder()
Pad(bytes) ==
    LET n == BlockSize - (Len(bytes) % BlockSize)
    IN bytes \o [i \in 1..n |-> n]

ValidPadding(bytes) ==
    /\ Len(bytes) > 0
    /\ Len(bytes) % BlockSize = 0
    /\ LET n == bytes[Len(bytes)]
       IN /\ n >= 1
          /\ n <= BlockSize
          /\ \A i \in (Len(bytes) - n + 1)..Len(bytes) : bytes[i] = n

\* an unpadder that drops one byte too many
UnpadOffByOne(bytes) == SubSeq(bytes, 1, Len(bytes) - bytes[Len(bytes)] - 1)

\* padding.PKCS7(128).unpadder(): meaningful when ValidPadding holds
Unpad(bytes) == SubSeq(bytes, 1, Len(bytes) - bytes[Len(bytes)])

IVBlock(iv) == [key |-> None, iv |-> iv, idx |-> 0, data |-> <<>>]

\* Cipher(AES(key), CBC(iv)).encryptor() over whole blocks
CBCEncrypt(key, iv, padded) ==
    [i \in 1..(Len(padded) \div BlockSize) |->
        [key |-> key, iv |-> iv, idx |-> i,
         data |-> SubSeq(padded, (i - 1) * BlockSize + 1, i * BlockSize)]]

\* the block was made under this key right after the block before it
Chained(key, previous, block) ==
    /\ block.key = key
    /\ block.iv = previous.iv
    /\ block.idx = previous.idx + 1

\* Cipher(AES(key), CBC(iv)).decryptor(): block i is chained to raw[i]
DecryptBlock(key, previous, block, noise) ==
    IF Chained(key, previous, block) THEN block.data ELSE noise

RECURSIVE Concat(_)
Concat(seqs) == IF seqs = <<>> THEN <<>> ELSE Head(seqs) \o Concat(Tail(seqs))

CBCDecrypt(key, raw, noise) ==
    Concat([i \in 1..(Len(raw) - 1) |->
                DecryptBlock(key, raw[i], raw[i + 1], noise)])

\* the IV is a constant of the build instead of the bytes drawn for the call
encrypt_with_static_iv(plaintext, key, iv) ==
    b64encode(<<IVBlock("iv1")>>
              \o CBCEncrypt(key, "iv1", Pad(utf8_encode(plaintext[2]))))

encrypt_with(plaintext, key, iv) ==
    b64encode(<<IVBlock(iv)>> \o CBCEncrypt(key, iv, Pad(utf8_encode(plaintext[2]))))

decrypt_with(token, key, noise) ==
    LET padded == CBCDecrypt(key, b64decode(token), noise)
        decoded == utf8_decode(Unpad(padded))
    IN IF ~ValidPadding(padded)
       THEN [kind |-> "error", token |-> NoToken, text |-> EmptyStr,
             error |-> "ValueError"]
       ELSE IF ~decoded.ok
       THEN [kind |-> "error", token |-> NoToken, text |-> EmptyStr,
             error |-> "UnicodeDecodeError"]
       ELSE [kind |-> "text", token |-> NoToken, text |-> Str(decoded.chars),
             error |-> ""]

\* encrypt(password) and decrypt(encrypted_password) with key=None
encrypt(plaintext, iv) == encrypt_with(plaintext, get_encryption_key, iv)

decrypt(token, noise) == decrypt_with(token, get_encryption_key, noise)

\* decryption of the token under this key yields the bytes encrypt was given
Intact(token, key) ==
    LET raw == b64decode(token)
    IN \A i \in 1..(Len(raw) - 1) : Chained(key, raw[i], raw[i + 1])

\* the token holds ciphertext and is intact under the key
ReadableUnder(token, key) ==
    Len(b64decode(token)) > 1 /\ Intact(token, key)

\* what a block yields under a key or chain it was not made with: bytes
\* without valid padding, bytes ending in the padding 01 that are UTF-8,
\* and bytes ending in the padding 01 that are not
Noises ==
    {[i \in 1..BlockSize |-> 200],
     [i \in 1..BlockSize |-> IF i = BlockSize THEN 1 ELSE 97],
     [i \in 1..BlockSize |-> IF i = BlockSize THEN 1 ELSE 255]}

(***************************************************************************)
(* Store and dialog helpers                                                *)
(***************************************************************************)
\* _init_database of the password manager runs before the flow: passwords,
\* categories and the default categories, each created only when absent
InitTables(t) ==
    IF t = "pm" THEN tables \cup {"passwords", "categories"} ELSE tables

InitCategories(t) ==
    IF t = "pm" /\ "categories" \notin tables THEN DefaultCategories
    ELSE categories

\* the first-run test made on the key slot instead of the table
HasMasterPasswordFromSession == sessionKey # None

\* execute_query('SELECT * FROM master_passwords LIMIT 1') returned a row
HasMasterPassword == master # <<>>

\* a wipe that empties the record tables of both tools
ClearEverything(t, failWipe) ==
    IF RecordTable(t) \in tables /\ failWipe # "delete"
    THEN [u \in Tools |-> {}]
    ELSE rows

\* DELETE FROM <record table>, then DELETE FROM sqlite_sequence, inside one
\* try: a missing table or a failing store leaves the rows as they are
ClearAll(t, failWipe) ==
    IF RecordTable(t) \in tables /\ failWipe # "delete"
    THEN [rows EXCEPT ![t] = {}]
    ELSE rows

(***************************************************************************)
(* What the table widgets show: load_passwords, load_dates                 *)
(***************************************************************************)
\* "[解密失败]" and the mask "••••••••"
DecryptFailed == Str(<<91, 35299, 23494, 22833, 36133, 93>>)
Mask == Str([i \in 1..8 |-> 8226])

\* the outcomes of decrypting each record: a choice per record that holds a
\* token which is not intact under the key
NoiseChoices(t, records, key) ==
    {noiseOf \in [records -> Noises] :
        \A r \in records :
            (t = "pm" \/ (Intact(r.title, key) /\ Intact(r.date, key)))
                => noiseOf[r] = [i \in 1..BlockSize |-> 200]}

\* a listing that drops the rows that decrypt once a row has failed
load_dates_dropping(records, key, noiseOf) ==
    LET Failed(r) ==
            \/ decrypt_with(r.title, key, noiseOf[r]).kind = "error"
            \/ decrypt_with(r.date, key, noiseOf[r]).kind = "error"
    IN {[row |-> r,
         title |-> IF Failed(r) THEN DecryptFailed
                   ELSE decrypt_with(r.title, key, noiseOf[r]).text,
         secret |-> IF Failed(r) THEN DecryptFailed
                    ELSE decrypt_with(r.date, key, noiseOf[r]).text,
         error |-> Failed(r)] :
            r \in {x \in records : Failed(x) \/ \A y \in records : ~Failed(y)}}

\* one pass of the for loop of load_dates: both decrypts sit in one try
DateEntry(r, key, noise) ==
    LET decrypted_title == decrypt_with(r.title, key, noise)
        decrypted_date == decrypt_with(r.date, key, noise)
    IN IF decrypted_title.kind = "error" \/ decrypted_date.kind = "error"
       THEN [row |-> r, title |-> DecryptFailed, secret |-> DecryptFailed,
             error |-> TRUE]
       ELSE [row |-> r, title |-> decrypted_title.text,
             secret |-> decrypted_date.text, error |-> FALSE]

load_dates(records, key, noiseOf) ==
    {DateEntry(r, key, noiseOf[r]) : r \in records}

\* no decryption here: the password cell shows the mask and keeps the token
load_passwords(records) ==
    {[row |-> r, title |-> r.title, secret |-> Mask, error |-> FALSE] :
        r \in records}

Listing(t, records, key, noiseOf) ==
    IF t = "pm" THEN load_passwords(records)
    ELSE load_dates(records, key, noiseOf)

\* __init__ after the flow returned True: the date counter creates its
\* table here (errors are reported and ignored); the title is set, the UI
\* built, and on_tool_clicked shows the dialog
ShowDialog(t, baseTables, failInit) ==
    /\ tables' = IF t = "dc" /\ ~failInit
                 THEN baseTables \cup {"date_records"}
                 ELSE baseTables
    /\ open' = open \cup {t}
    /\ \E noiseOf \in NoiseChoices(t, rows[t], get_encryption_key') :
           view' = [view EXCEPT ![t] =
                       IF RecordTable(t) \in tables'
                       THEN Listing(t, rows[t], get_encryption_key', noiseOf)
                       ELSE {}]

(***************************************************************************)
(* on_tool_clicked -> __init__ -> _check_and_setup_master_password         *)
(***************************************************************************)
\* the attempts left as the prompt reports them, counted one too early
remaining_attempts_stale(failed) == MaxAttempts - failed + 1

\* remaining_attempts = 5 - failed_attempts
remaining_attempts(failed) == MaxAttempts - failed

OpenTool(t, fail) ==
    /\ state \notin Prompting
    /\ fail = "init" => t = "pm"
    /\ tool' = t
    /\ failed_attempts' = 0
    /\ info_label' = IF fail = "no" /\ HasMasterPassword
                     THEN <<remaining_attempts(failed_attempts')>>
                     ELSE <<>>
    /\ submitted' = <<>>
    /\ UNCHANGED <<generated, ordered, twin, master, rows, sessionKey, wiped,
                   open, cipherVars, recordVars>>
    /\ IF fail = "init"
       THEN \* the first store call of _init_database raises
            /\ state' = "Error"
            /\ lastEvent' = "error"
            /\ rec' = <<>>
            /\ UNCHANGED <<tables, categories>>
       ELSE IF fail = "check"
       THEN \* table_exists('master_passwords') raises
            /\ state' = "Error"
            /\ lastEvent' = "error"
            /\ rec' = <<>>
            /\ tables' = InitTables(t)
            /\ categories' = InitCategories(t)
       ELSE /\ tables' = InitTables(t) \cup {"master_passwords"}
            /\ categories' = InitCategories(t)
            /\ lastEvent' = "start"
            /\ IF HasMasterPassword
               THEN /\ state' = "AwaitingVerification"
                    /\ rec' = <<master[1]>>
               ELSE /\ state' = "AwaitingFirstPassword"
                    /\ rec' = <<>>

(***************************************************************************)
(* _set_master_password                                                    *)
(***************************************************************************)
\* the length test off by one
TooShortOffByOne(candidate) == Len(candidate) < MinPasswordLength - 1

TooShort(candidate) == Len(candidate) < MinPasswordLength

\* a setup that derives and stores the session key before the INSERT
SetupSubmitKeyFirst(candidate, confirmation, saltBytes, failInsert, failInit) ==
    /\ state = "AwaitingFirstPassword"
    /\ submitted' = <<candidate, confirmation>>
    /\ UNCHANGED <<generated, ordered, info_label, twin, rows, categories,
                   tool, failed_attempts, rec, wiped, cipherVars, entered>>
    /\ IF TooShort(candidate)
       THEN /\ lastEvent' = "tooShort"
            /\ UNCHANGED <<tables, master, sessionKey, state, open, view>>
       ELSE IF candidate # confirmation
       THEN /\ lastEvent' = "mismatch"
            /\ UNCHANGED <<tables, master, sessionKey, state, open, view>>
       ELSE LET created == create_master_password_hash(candidate, saltBytes)
            IN /\ sessionKey' =
                      derive_key_from_master_password(candidate, created.salt)
               /\ IF failInsert
                  THEN /\ lastEvent' = "saveFailed"
                       /\ UNCHANGED <<tables, master, state, open, view>>
                  ELSE /\ master' = Append(master, created)
                       /\ state' = "Unlocked"
                       /\ lastEvent' = "saved"
                       /\ ShowDialog(tool, tables, failInit)

SetupSubmit(candidate, confirmation, saltBytes, failInsert, failInit) ==
    /\ state = "AwaitingFirstPassword"
    /\ submitted' = <<candidate, confirmation>>
    /\ UNCHANGED <<generated, ordered, info_label, twin, rows, categories,
                   tool, failed_attempts, rec, wiped, cipherVars, entered>>
    /\ IF TooShort(candidate)
       THEN /\ lastEvent' = "tooShort"
            /\ UNCHANGED <<tables, master, sessionKey, state, open, view>>
       ELSE IF candidate # confirmation
       THEN /\ lastEvent' = "mismatch"
            /\ UNCHANGED <<tables, master, sessionKey, state, open, view>>
       ELSE IF failInsert
       THEN /\ lastEvent' = "saveFailed"
            /\ UNCHANGED <<tables, master, sessionKey, state, open, view>>
       ELSE LET created == create_master_password_hash(candidate, saltBytes)
            IN /\ master' = Append(master, created)
               /\ sessionKey' =
                      derive_key_from_master_password(candidate, created.salt)
               /\ state' = "Unlocked"
               /\ lastEvent' = "saved"
               /\ ShowDialog(tool, tables, failInit)

\* a cancelled setup after which the dialog is shown all the same
SetupCancelShown ==
    /\ state = "AwaitingFirstPassword"
    /\ state' = "Abandoned"
    /\ lastEvent' = "cancel"
    /\ submitted' = <<>>
    /\ open' = open \cup {tool}
    /\ UNCHANGED <<generated, ordered, info_label, twin, tables, master, rows,
                   categories, sessionKey, tool, failed_attempts, rec, wiped,
                   cipherVars, recordVars>>

SetupCancel ==
    /\ state = "AwaitingFirstPassword"
    /\ state' = "Abandoned"
    /\ lastEvent' = "cancel"
    /\ submitted' = <<>>
    /\ UNCHANGED <<generated, ordered, info_label, twin, tables, master, rows,
                   categories, sessionKey, tool, failed_attempts, rec, wiped,
                   open, cipherVars, recordVars>>

(***************************************************************************)
(* _verify_master_password                                                 *)
(***************************************************************************)
\* after dialog.exec() returned Accepted
AcceptedReturnsTrue == get_session_key # None

\* a limit test that lets the fifth failure pass
ReachedLimitLate(failed) == failed > MaxAttempts

\* if failed_attempts >= 5
ReachedLimit(failed) == failed >= MaxAttempts

\* a prompt that hands the empty text to the verifier like any other
NothingIsEmpty(password) == FALSE

\* if not password
NotEntered(password) == password = ""

VerifySubmit(password, failWipe, failInit) ==
    /\ state = "AwaitingVerification"
    /\ submitted' = <<password>>
    /\ UNCHANGED <<generated, ordered, twin, master, categories, tool, rec,
                   cipherVars, entered>>
    /\ IF NotEntered(password)
       THEN /\ lastEvent' = "empty"
            /\ UNCHANGED <<tables, rows, sessionKey, state, failed_attempts,
                           wiped, open, view, info_label>>
       ELSE IF verify_master_password(password, rec[1].salt, rec[1].hashed_password)
       THEN /\ sessionKey' = derive_key_from_master_password(password, rec[1].salt)
            /\ state' = "Unlocked"
            /\ lastEvent' = "match"
            /\ info_label' = <<>>
            /\ ShowDialog(tool, tables, failInit)
            /\ UNCHANGED <<rows, failed_attempts, wiped>>
       ELSE /\ failed_attempts' = failed_attempts + 1
            /\ info_label' = IF ReachedLimit(failed_attempts')
                             THEN <<>>
                             ELSE <<remaining_attempts(failed_attempts')>>
            /\ UNCHANGED sessionKey
            /\ IF ReachedLimit(failed_attempts')
               THEN IF AcceptedReturnsTrue
                    THEN /\ state' = "Unlocked"
                         /\ lastEvent' = "wrong"
                         /\ ShowDialog(tool, tables, failInit)
                         /\ UNCHANGED <<rows, wiped>>
                    ELSE /\ rows' = ClearAll(tool, failWipe)
                         /\ state' = "WipedAndLocked"
                         /\ lastEvent' = "wiped"
                         /\ wiped' = wiped \cup {tool}
                         /\ UNCHANGED <<tables, open, view>>
               ELSE /\ lastEvent' = "wrong"
                    /\ UNCHANGED <<tables, rows, state, wiped, open, view>>

\* a cancellation counted like a wrong password
VerifyCancelCounted ==
    /\ state = "AwaitingVerification"
    /\ state' = "Locked"
    /\ info_label' = <<>>
    /\ lastEvent' = "cancel"
    /\ submitted' = <<>>
    /\ failed_attempts' = failed_attempts + 1
    /\ UNCHANGED <<generated, ordered, twin, tables, master, rows, categories,
                   sessionKey, tool, rec, wiped, open, cipherVars,
                   recordVars>>

VerifyCancel ==
    /\ state = "AwaitingVerification"
    /\ state' = "Locked"
    /\ info_label' = <<>>
    /\ lastEvent' = "cancel"
    /\ submitted' = <<>>
    /\ UNCHANGED <<generated, ordered, twin, tables, master, rows, categories,
                   sessionKey, tool, failed_attempts, rec, wiped, open,
                   cipherVars, recordVars>>

(***************************************************************************)
(* Record writes of a shown dialog: save_password, add_date                *)
(***************************************************************************)
Whitespace == {9, 10, 11, 12, 13, 32}

RECURSIVE lstrip(_)
lstrip(chars) ==
    IF chars # <<>> /\ Head(chars) \in Whitespace THEN lstrip(Tail(chars))
    ELSE chars

RECURSIVE rstrip(_)
rstrip(chars) ==
    IF chars # <<>> /\ chars[Len(chars)] \in Whitespace
    THEN rstrip(SubSeq(chars, 1, Len(chars) - 1))
    ELSE chars

\* str.strip()
strip(text) == Str(rstrip(lstrip(text[2])))

\* a password row that holds the password as typed
NewRowPlain(t, title, password, iv1, iv2) ==
    IF t = "pm"
    THEN [title |-> strip(title), encrypted_password |-> password]
    ELSE [title |-> encrypt(strip(title), iv1), date |-> encrypt(DateStr, iv2)]

NewRow(t, title, password, iv1, iv2) ==
    IF t = "pm"
    THEN [title |-> strip(title), encrypted_password |-> encrypt(password, iv1)]
    ELSE [title |-> encrypt(strip(title), iv1), date |-> encrypt(DateStr, iv2)]

\* the warnings of save_password and add_date that end the handler early
Rejected(t, title, password) ==
    \/ strip(title) = EmptyStr
    \/ t = "pm" /\ password = EmptyStr

\* the write of a handler of tool t followed by its reload of the table
WriteAndReload(t, newRows) ==
    /\ rows' = [rows EXCEPT ![t] = newRows]
    /\ \E noiseOf \in NoiseChoices(t, newRows, get_encryption_key) :
           view' = [view EXCEPT ![t] =
                       Listing(t, newRows, get_encryption_key, noiseOf)]

AddRecord(t, title, password, iv1, iv2, failInsert) ==
    /\ t \in open
    /\ state \notin Prompting
    /\ Cardinality(rows[t]) < MaxRows
    /\ t = "dc" => password = EmptyStr
    /\ entered' = title
    /\ IF \/ Rejected(t, title, password)
          \/ failInsert
          \/ RecordTable(t) \notin tables
       THEN UNCHANGED <<rows, view>>
       ELSE WriteAndReload(t, rows[t] \cup {NewRow(t, title, password, iv1, iv2)})
    /\ UNCHANGED <<generated, ordered, twin, tables, master, categories,
                   sessionKey, flowVars, open, cipherVars>>

\* save_password with a password_id; edit_cell on column 0 (title) or 1
\* (date) of a row the table shows
EditedRow(t, old, column, title, password, iv) ==
    IF t = "pm"
    THEN [title |-> strip(title), encrypted_password |-> encrypt(password, iv)]
    ELSE IF column = 0
    THEN [old EXCEPT !.title = encrypt(strip(title), iv)]
    ELSE [old EXCEPT !.date = encrypt(DateStr, iv)]

EditRecord(t, old, column, title, password, iv, failUpdate) ==
    /\ t \in open
    /\ state \notin Prompting
    /\ old \in rows[t]
    /\ old \in {e.row : e \in view[t]}
    /\ t = "pm" => column = 0
    /\ t = "dc" => password = EmptyStr
    /\ EditedRow(t, old, column, title, password, iv) \notin rows[t] \ {old}
    /\ entered' = IF t = "dc" /\ column = 1 THEN entered ELSE title
    /\ IF \/ (column = 0 /\ Rejected(t, title, password))
          \/ failUpdate
       THEN UNCHANGED <<rows, view>>
       ELSE WriteAndReload(t, (rows[t] \ {old}) \cup
                                {EditedRow(t, old, column, title, password, iv)})
    /\ UNCHANGED <<generated, ordered, twin, tables, master, categories,
                   sessionKey, flowVars, open, cipherVars>>

\* a restart that carries the key slot over
RestartKeepingKey ==
    /\ state' = "NoVaultYet"
    /\ tool' = "none"
    /\ failed_attempts' = 0
    /\ rec' = <<>>
    /\ lastEvent' = "none"
    /\ submitted' = <<>>
    /\ wiped' = {}
    /\ open' = {}
    /\ info_label' = <<>>
    /\ entered' = EmptyStr
    /\ view' = [t \in Tools |-> {}]
    /\ UNCHANGED <<generated, ordered, twin, tables, master, rows, categories,
                   sessionKey, cipherVars>>

\* the process exits and is started again: the database file stays
Restart ==
    /\ sessionKey' = None
    /\ state' = "NoVaultYet"
    /\ tool' = "none"
    /\ failed_attempts' = 0
    /\ rec' = <<>>
    /\ lastEvent' = "none"
    /\ submitted' = <<>>
    /\ wiped' = {}
    /\ open' = {}
    /\ info_label' = <<>>
    /\ entered' = EmptyStr
    /\ view' = [t \in Tools |-> {}]
    /\ UNCHANGED <<generated, ordered, twin, tables, master, rows, categories,
                   cipherVars>>

Init ==
    /\ tables = {}
    /\ master = <<>>
    /\ rows = [t \in Tools |-> {}]
    /\ categories = {}
    /\ sessionKey = None
    /\ state = "NoVaultYet"
    /\ tool = "none"
    /\ failed_attempts = 0
    /\ rec = <<>>
    /\ lastEvent = "none"
    /\ submitted = <<>>
    /\ wiped = {}
    /\ open = {}
    /\ cipherCall = NoCall
    /\ cipherResult = NoResult
    /\ cipherPrev = NoPrev
    /\ info_label = <<>>
    /\ generated = NoPassword
    /\ ordered = {}
    /\ entered = EmptyStr
    /\ twin = NoTwin
    /\ view = [t \in Tools |-> {}]

Next ==
    \/ \E t \in Tools, fail \in {"no", "init", "check"} : OpenTool(t, fail)
    \/ \E c, f \in Passwords, s \in Salts, failInsert, failInit \in BOOLEAN :
           SetupSubmit(c, f, s, failInsert, failInit)
    \/ SetupCancel
    \/ \E p \in Passwords, failWipe \in {"no", "delete", "sequence"},
          failInit \in BOOLEAN : VerifySubmit(p, failWipe, failInit)
    \/ VerifyCancel
    \/ \E t \in Tools, password \in RecordPasswords, iv1, iv2 \in IVs,
          failInsert \in BOOLEAN :
           AddRecord(t, Str(<<32, 116, 233>>), password, iv1, iv2, failInsert)
    \/ Restart

Spec == Init /\ [][Next]_vars

(***************************************************************************)
(* The record forms of the two dialogs, both shown after a setup with      *)
(* "correct-pw": save_password (add and edit), add_date, edit_cell         *)
(***************************************************************************)
InitRecords ==
    LET created == create_master_password_hash("correct-pw", <<"salt", "s1", "">>)
    IN /\ tables = {"master_passwords", "passwords", "categories",
                    "date_records"}
       /\ master = <<created>>
       /\ rows = [t \in Tools |-> {}]
       /\ categories = DefaultCategories
       /\ sessionKey = derive_key_from_master_password("correct-pw", created.salt)
       /\ state = "Unlocked"
       /\ tool = "dc"
       /\ failed_attempts = 0
       /\ rec = <<created>>
       /\ lastEvent = "match"
       /\ submitted = <<"correct-pw">>
       /\ wiped = {}
       /\ open = Tools
       /\ cipherCall = NoCall
       /\ cipherResult = NoResult
       /\ cipherPrev = NoPrev
       /\ info_label = <<>>
       /\ generated = NoPassword
       /\ ordered = {}
       /\ entered = EmptyStr
       /\ twin = NoTwin
       /\ view = [t \in Tools |-> {}]

NextRecords ==
    \/ \E t \in Tools, title \in Titles, password \in RecordPasswords,
          iv1, iv2 \in IVs, failInsert \in BOOLEAN :
           AddRecord(t, title, password, iv1, iv2, failInsert)
    \/ \E t \in Tools, column \in {0, 1}, title \in Titles,
          old \in rows["pm"] \cup rows["dc"],
          password \in RecordPasswords, iv \in IVs, failUpdate \in BOOLEAN :
           EditRecord(t, old, column, title, password, iv, failUpdate)

SpecRecords == InitRecords /\ [][NextRecords]_vars

(***************************************************************************)
(* Reading a store found at process start that also holds rows written     *)
(* under another master password and rows whose token lost its ciphertext: *)
(* load_dates, load_passwords, on_cell_clicked and its timer               *)
(***************************************************************************)
CurrentKey == DeriveKey("correct-pw", <<"salt", "s1", "">>)
FormerKey == DeriveKey("wrong-pw-1", <<"salt", "s2", "">>)

Truncated(token) == b64encode(SubSeq(b64decode(token), 1, 1))

StoredDates ==
    {[title |-> encrypt_with(Str(<<116>>), k1, "iv1"),
      date |-> encrypt_with(DateStr, k2, "iv2")] :
        k1, k2 \in {CurrentKey, FormerKey}}
    \cup {[title |-> encrypt_with(Str(<<116>>), CurrentKey, "iv1"),
           date |-> Truncated(encrypt_with(DateStr, CurrentKey, "iv2"))]}

StoredPasswords ==
    {[title |-> Str(<<116>>),
      encrypted_password |-> encrypt_with(Str(<<112, 32>>), k, "iv1")] :
        k \in {CurrentKey, FormerKey}}

\* self.load_dates() / self.load_passwords() of a shown dialog
Reload(t) ==
    /\ t \in open
    /\ \E noiseOf \in NoiseChoices(t, rows[t], get_encryption_key) :
           view' = [view EXCEPT ![t] =
                       Listing(t, rows[t], get_encryption_key, noiseOf)]
    /\ UNCHANGED <<generated, ordered, twin, tables, master, rows, categories,
                   sessionKey, flowVars, open, cipherVars, entered>>

\* a click on column 2 of a row of the password table
on_cell_clicked(e, noise) ==
    /\ "pm" \in open
    /\ e \in view["pm"]
    /\ LET plain_password == decrypt(e.row.encrypted_password, noise)
       IN view' = [view EXCEPT !["pm"] = (@ \ {e}) \cup
                      {IF plain_password.kind = "error"
                       THEN [e EXCEPT !.error = TRUE]
                       ELSE [e EXCEPT !.secret = plain_password.text,
                                      !.error = FALSE]}]
    /\ UNCHANGED <<generated, ordered, twin, tables, master, rows, categories,
                   sessionKey, flowVars, open, cipherVars, entered>>

\* QTimer.singleShot(3000, ...): the cell shows the mask again
RestoreMask(e) ==
    /\ e \in view["pm"]
    /\ e.secret # Mask
    /\ view' = [view EXCEPT !["pm"] = (@ \ {e}) \cup {[e EXCEPT !.secret = Mask]}]
    /\ UNCHANGED <<generated, ordered, twin, tables, master, rows, categories,
                   sessionKey, flowVars, open, cipherVars, entered>>

InitListing ==
    /\ tables = {"master_passwords", "passwords", "categories", "date_records"}
    /\ master = <<create_master_password_hash("correct-pw", <<"salt", "s1", "">>)>>
    /\ rows \in {r \in [Tools -> SUBSET (StoredDates \cup StoredPasswords)] :
                    /\ r["pm"] \subseteq StoredPasswords
                    /\ r["dc"] \subseteq StoredDates
                    /\ \A t \in Tools : Cardinality(r[t]) <= MaxListed}
    /\ categories = DefaultCategories
    /\ sessionKey = CurrentKey
    /\ state = "Unlocked"
    /\ tool = "dc"
    /\ failed_attempts = 0
    /\ rec = master
    /\ lastEvent = "match"
    /\ submitted = <<"correct-pw">>
    /\ wiped = {}
    /\ open = Tools
    /\ cipherCall = NoCall
    /\ cipherResult = NoResult
    /\ cipherPrev = NoPrev
    /\ info_label = <<>>
    /\ generated = NoPassword
    /\ ordered = {}
    /\ entered = EmptyStr
    /\ twin = NoTwin
    /\ \E noiseOf \in NoiseChoices("dc", rows["dc"], CurrentKey) :
           view = [t \in Tools |-> Listing(t, rows[t], CurrentKey, noiseOf)]

NextListing ==
    \/ \E t \in Tools : Reload(t)
    \/ \E e \in view["pm"], noise \in Noises : on_cell_clicked(e, noise)
    \/ \E e \in view["pm"] : RestoreMask(e)

SpecListing == InitListing /\ [][NextListing]_vars

(***************************************************************************)
(* The unlock flow of PasswordManagerDialog and the copy of it in          *)
(* DateCounterDialog, each written from its own file as a function on a    *)
(* world [master, key, tables, rows, state, failed_attempts, outcome], and *)
(* run side by side on two copies of one world with the same inputs        *)
(***************************************************************************)
\* password_manager.py: __init__ up to the prompt
pm_check_and_setup(w, fail) ==
    LET initialised == [w EXCEPT !.tables = @ \cup {"passwords", "categories"},
                                 !.failed_attempts = 0,
                                 !.outcome = "none"]
        checked == [initialised EXCEPT !.tables = @ \cup {"master_passwords"}]
    IN IF fail = "check"
       THEN [initialised EXCEPT !.state = "Error", !.outcome = "error"]
       ELSE IF checked.master = <<>>
       THEN [checked EXCEPT !.state = "AwaitingFirstPassword"]
       ELSE [checked EXCEPT !.state = "AwaitingVerification"]

pm_validate_and_save(w, master_password, confirm_password, saltBytes, failInsert) ==
    IF Len(master_password) < MinPasswordLength THEN w
    ELSE IF master_password # confirm_password THEN w
    ELSE IF failInsert THEN w
    ELSE LET created == create_master_password_hash(master_password, saltBytes)
         IN [w EXCEPT !.master = Append(@, created),
                      !.key = derive_key_from_master_password(master_password,
                                                              created.salt),
                      !.state = "Unlocked",
                      !.outcome = "unlocked"]

pm_clear_all_passwords(w, failWipe) ==
    IF "passwords" \in w.tables /\ failWipe # "delete"
    THEN [w EXCEPT !.rows["pm"] = {}]
    ELSE w

pm_validate_password(w, password, failWipe) ==
    IF password = "" THEN w
    ELSE IF verify_master_password(password, w.master[1].salt,
                                   w.master[1].hashed_password)
    THEN [w EXCEPT !.key = derive_key_from_master_password(password,
                                                           w.master[1].salt),
                   !.state = "Unlocked",
                   !.outcome = "unlocked"]
    ELSE LET counted == [w EXCEPT !.failed_attempts = @ + 1]
         IN IF counted.failed_attempts < MaxAttempts THEN counted
            ELSE IF counted.key # None
            THEN [counted EXCEPT !.state = "Unlocked", !.outcome = "unlocked"]
            ELSE [pm_clear_all_passwords(counted, failWipe)
                     EXCEPT !.state = "WipedAndLocked", !.outcome = "wiped"]

\* a copy that wipes one attempt early
dc_validate_password_early(w, password, failWipe) ==
    IF password = "" THEN w
    ELSE IF verify_master_password(password, w.master[1].salt,
                                   w.master[1].hashed_password)
    THEN [w EXCEPT !.key = derive_key_from_master_password(password,
                                                           w.master[1].salt),
                   !.state = "Unlocked",
                   !.outcome = "unlocked"]
    ELSE LET counted == [w EXCEPT !.failed_attempts = @ + 1]
         IN IF counted.failed_attempts < MaxAttempts - 1 THEN counted
            ELSE IF counted.key # None
            THEN [counted EXCEPT !.state = "Unlocked", !.outcome = "unlocked"]
            ELSE [counted EXCEPT !.state = "WipedAndLocked", !.outcome = "wiped",
                                 !.rows["dc"] = {}]

\* date_counter.py: __init__ up to the prompt; the exception is caught here
dc_check_and_setup(w, fail) ==
    LET started == [w EXCEPT !.failed_attempts = 0, !.outcome = "none"]
        checked == [started EXCEPT !.tables = @ \cup {"master_passwords"}]
    IN IF fail = "check"
       THEN [started EXCEPT !.state = "Error", !.outcome = "error"]
       ELSE IF checked.master = <<>>
       THEN [checked EXCEPT !.state = "AwaitingFirstPassword"]
       ELSE [checked EXCEPT !.state = "AwaitingVerification"]

dc_validate_and_save(w, master_password, confirm_password, saltBytes, failInsert) ==
    IF Len(master_password) < MinPasswordLength THEN w
    ELSE IF master_password # confirm_password THEN w
    ELSE IF failInsert THEN w
    ELSE LET created == create_master_password_hash(master_password, saltBytes)
         IN [w EXCEPT !.master = Append(@, created),
                      !.key = derive_key_from_master_password(master_password,
                                                              created.salt),
                      !.state = "Unlocked",
                      !.outcome = "unlocked"]

dc_clear_all_dates(w, failWipe) ==
    IF "date_records" \in w.tables /\ failWipe # "delete"
    THEN [w EXCEPT !.rows["dc"] = {}]
    ELSE w

dc_validate_password(w, password, failWipe) ==
    IF password = "" THEN w
    ELSE IF verify_master_password(password, w.master[1].salt,
                                   w.master[1].hashed_password)
    THEN [w EXCEPT !.key = derive_key_from_master_password(password,
                                                           w.master[1].salt),
                   !.state = "Unlocked",
                   !.outcome = "unlocked"]
    ELSE LET counted == [w EXCEPT !.failed_attempts = @ + 1]
         IN IF counted.failed_attempts < MaxAttempts THEN counted
            ELSE IF counted.key # None
            THEN [counted EXCEPT !.state = "Unlocked", !.outcome = "unlocked"]
            ELSE [dc_clear_all_dates(counted, failWipe)
                     EXCEPT !.state = "WipedAndLocked", !.outcome = "wiped"]

\* cancel_button -> dialog.reject in either prompt, the same in both files
Rejected_prompt(w) ==
    [w EXCEPT !.state = IF @ = "AwaitingFirstPassword" THEN "Abandoned"
                        ELSE "Locked",
              !.outcome = "cancelled"]

\* the stores and key slots a process can find itself with when a tool is
\* clicked: no database yet; a master record with or without rows, with
\* or without the date table, the key slot set or not
DriftWorlds ==
    LET created == create_master_password_hash("correct-pw", <<"salt", "s1", "">>)
        password_row == CHOOSE r \in StoredPasswords :
                            Intact(r.encrypted_password, CurrentKey)
        date_row == CHOOSE r \in StoredDates :
                        /\ ReadableUnder(r.title, CurrentKey)
                        /\ ReadableUnder(r.date, CurrentKey)
        World(m, k, tabs, rws) ==
            [master |-> m, key |-> k, tables |-> tabs, rows |-> rws,
             state |-> "NoVaultYet", failed_attempts |-> 0, outcome |-> "none"]
    IN {World(<<>>, None, {}, [t \in Tools |-> {}])}
       \cup {World(<<created>>, k,
                   {"master_passwords", "passwords", "categories", "date_records"},
                   rws) :
               k \in {None, CurrentKey},
               rws \in {[t \in Tools |-> {}],
                        [t \in Tools |-> IF t = "pm" THEN {password_row}
                                         ELSE {date_row}]}}
       \cup {World(<<created>>, k,
                   {"master_passwords", "passwords", "categories"},
                   [t \in Tools |-> IF t = "pm" THEN {password_row} ELSE {}]) :
               k \in {None, CurrentKey}}

SameState(st) == twin.pm.state \in st /\ twin.dc.state \in st

Both(pm_world, dc_world) ==
    /\ twin' = [pm |-> pm_world, dc |-> dc_world]
    /\ UNCHANGED <<generated, ordered, tables, master, rows, categories,
                   sessionKey, flowVars, open, cipherVars, recordVars>>

DriftOpen(fail) ==
    /\ twin.pm.state \notin Prompting
    /\ twin.dc.state \notin Prompting
    /\ Both(pm_check_and_setup(twin.pm, fail), dc_check_and_setup(twin.dc, fail))

DriftSetupSubmit(candidate, confirmation, saltBytes, failInsert) ==
    /\ SameState({"AwaitingFirstPassword"})
    /\ Both(pm_validate_and_save(twin.pm, candidate, confirmation, saltBytes,
                                 failInsert),
            dc_validate_and_save(twin.dc, candidate, confirmation, saltBytes,
                                 failInsert))

DriftVerifySubmit(password, failWipe) ==
    /\ SameState({"AwaitingVerification"})
    /\ Both(pm_validate_password(twin.pm, password, failWipe),
            dc_validate_password(twin.dc, password, failWipe))

DriftCancel ==
    /\ SameState(Prompting)
    /\ Both(Rejected_prompt(twin.pm), Rejected_prompt(twin.dc))

InitDrift ==
    /\ tables = {}
    /\ master = <<>>
    /\ rows = [t \in Tools |-> {}]
    /\ categories = {}
    /\ sessionKey = None
    /\ state = "NoVaultYet"
    /\ tool = "none"
    /\ failed_attempts = 0
    /\ rec = <<>>
    /\ lastEvent = "none"
    /\ submitted = <<>>
    /\ wiped = {}
    /\ open = {}
    /\ cipherCall = NoCall
    /\ cipherResult = NoResult
    /\ cipherPrev = NoPrev
    /\ info_label = <<>>
    /\ generated = NoPassword
    /\ ordered = {}
    /\ entered = EmptyStr
    /\ view = [t \in Tools |-> {}]
    /\ twin \in {[pm |-> w, dc |-> w] : w \in DriftWorlds}

NextDrift ==
    \/ \E fail \in {"no", "check"} : DriftOpen(fail)
    \/ \E c, f \in Passwords, s \in Salts, failInsert \in BOOLEAN :
           DriftSetupSubmit(c, f, s, failInsert)
    \/ \E p \in Passwords, failWipe \in {"no", "delete", "sequence"} :
           DriftVerifySubmit(p, failWipe)
    \/ DriftCancel

SpecDrift == InitDrift /\ [][NextDrift]_vars

(***************************************************************************)
(* PasswordEncryption called directly, from any state of the key slot      *)
(***************************************************************************)
CipherTexts ==
    {Str(prefix \o [i \in 1..n |-> 97]) :
        prefix \in {<<>>, <<233, 8364>>}, n \in 0..MaxTextLen}
CipherKeys == {DeriveKey("correct-pw", <<"salt", "s1", "">>)}
CipherTokens ==
    {encrypt_with(t, k, iv) :
        t \in CipherTexts, k \in CipherKeys \cup {DefaultKey}, iv \in IVs}

\* iv is what os.urandom(16) returns to this call
Encrypting(plaintext, iv) ==
    /\ cipherCall' = [op |-> "encrypt", text |-> plaintext, token |-> NoToken,
                      key |-> get_encryption_key, iv |-> iv, noise |-> <<>>]
    /\ cipherResult' = [kind |-> "token", token |-> encrypt(plaintext, iv),
                        text |-> EmptyStr, error |-> ""]
    /\ UNCHANGED <<generated, ordered, twin, tables, master, rows, categories,
                   sessionKey, flowVars, open, recordVars>>

CallEncrypt(plaintext, iv) ==
    /\ Encrypting(plaintext, iv)
    /\ UNCHANGED cipherPrev

CallDecrypt(token, noise) ==
    /\ cipherCall' = [op |-> "decrypt", text |-> EmptyStr, token |-> token,
                      key |-> get_encryption_key, iv |-> "", noise |-> noise]
    /\ cipherResult' = decrypt(token, noise)
    /\ UNCHANGED <<cipherPrev, generated, ordered, twin, tables, master, rows,
                   categories, sessionKey, flowVars, open, recordVars>>

CallSetSessionKey(key) ==
    /\ sessionKey' = key
    /\ UNCHANGED <<generated, ordered, twin, tables, master, rows, categories,
                   flowVars, open, cipherVars, recordVars>>

InitCipher ==
    /\ tables = {}
    /\ master = <<>>
    /\ rows = [t \in Tools |-> {}]
    /\ categories = {}
    /\ sessionKey = None
    /\ state = "NoVaultYet"
    /\ tool = "none"
    /\ failed_attempts = 0
    /\ rec = <<>>
    /\ lastEvent = "none"
    /\ submitted = <<>>
    /\ wiped = {}
    /\ open = {}
    /\ cipherCall = NoCall
    /\ cipherResult = NoResult
    /\ cipherPrev = NoPrev
    /\ info_label = <<>>
    /\ generated = NoPassword
    /\ ordered = {}
    /\ entered = EmptyStr
    /\ twin = NoTwin
    /\ view = [t \in Tools |-> {}]

NextCipher ==
    \/ \E plaintext \in CipherTexts, iv \in IVs : CallEncrypt(plaintext, iv)
    \/ \E token \in CipherTokens, noise \in Noises : CallDecrypt(token, noise)
    \/ \E key \in CipherKeys : CallSetSessionKey(key)

SpecCipher == InitCipher /\ [][NextCipher]_vars

(***************************************************************************)
(* encrypt called again and again, the call before the last one kept       *)
(***************************************************************************)
SuccessiveTexts ==
    {EmptyStr, Str(<<97>>), Str([i \in 1..BlockSize |-> 97]), Str(<<233, 8364>>)}

EncryptAgain(plaintext, iv) ==
    /\ Encrypting(plaintext, iv)
    /\ cipherPrev' = [call |-> cipherCall, result |-> cipherResult]

NextSuccessive ==
    \/ \E plaintext \in SuccessiveTexts, iv \in IVs : EncryptAgain(plaintext, iv)
    \/ \E key \in CipherKeys : CallSetSessionKey(key)

SpecSuccessive == InitCipher /\ [][NextSuccessive]_vars

(***************************************************************************)
(* The verification flow against a master-secret record that was damaged   *)
(* in the database file after it was stored                                *)
(***************************************************************************)
StoredRecord == create_master_password_hash("correct-pw", <<"salt", "s1", "">>)

Stray(text) == <<"b64stray", text[2]>>
Cut(text) == <<"b64cut", text[2]>>
Garbage == b64encode(<<"garbage", "", "">>)

\* the record with one column cut short, NULL, replaced by other well-formed
\* text, or with stray characters in it
DamagedRecords ==
    {[StoredRecord EXCEPT !.salt = v] :
        v \in {Cut(StoredRecord.salt), None, b64encode(<<"salt", "s2", "">>),
               Stray(StoredRecord.salt)}}
    \cup {[StoredRecord EXCEPT !.hashed_password = v] :
            v \in {Cut(StoredRecord.hashed_password), None, Garbage,
                   Stray(StoredRecord.hashed_password)}}

InitDamaged ==
    /\ tables = {"master_passwords", "passwords", "categories", "date_records"}
    /\ master \in {<<m>> : m \in DamagedRecords}
    /\ rows = [t \in Tools |->
                  IF t = "pm"
                  THEN {CHOOSE r \in StoredPasswords :
                            Intact(r.encrypted_password, CurrentKey)}
                  ELSE {CHOOSE r \in StoredDates :
                            /\ ReadableUnder(r.title, CurrentKey)
                            /\ ReadableUnder(r.date, CurrentKey)}]
    /\ categories = DefaultCategories
    /\ sessionKey = None
    /\ state = "NoVaultYet"
    /\ tool = "none"
    /\ failed_attempts = 0
    /\ rec = <<>>
    /\ lastEvent = "none"
    /\ submitted = <<>>
    /\ wiped = {}
    /\ open = {}
    /\ cipherCall = NoCall
    /\ cipherResult = NoResult
    /\ cipherPrev = NoPrev
    /\ info_label = <<>>
    /\ generated = NoPassword
    /\ ordered = {}
    /\ entered = EmptyStr
    /\ twin = NoTwin
    /\ view = [t \in Tools |-> {}]

NextDamaged ==
    \/ \E t \in Tools : OpenTool(t, "no")
    \/ \E p \in Passwords : VerifySubmit(p, "no", FALSE)
    \/ VerifyCancel
    \/ Restart

SpecDamaged == InitDamaged /\ [][NextDamaged]_vars

(***************************************************************************)
(* PasswordGenerator.generate_password.  Each character class is stood for *)
(* by one character that is in similar_chars and one that is not ('A' 'O', *)
(* 'a' 'l', '2' '0'); the special characters hold no similar one ('!').    *)
(* What secrets.choice and secrets.randbelow return is the argument draws. *)
(***************************************************************************)
ascii_uppercase == {65, 79}
ascii_lowercase == {97, 108}
digits == {50, 48}
special_chars == {33}
similar_chars == {105, 108, 49, 76, 111, 48, 79}

\* chars after the four += and the exclusion loop
CharPool(use_uppercase, use_lowercase, use_digits, use_special, exclude_similar) ==
    LET selected == (IF use_uppercase THEN ascii_uppercase ELSE {})
                    \cup (IF use_lowercase THEN ascii_lowercase ELSE {})
                    \cup (IF use_digits THEN digits ELSE {})
                    \cup (IF use_special THEN special_chars ELSE {})
        chars == IF selected = {}
                 THEN ascii_uppercase \cup ascii_lowercase \cup digits
                 ELSE selected
    IN IF exclude_similar THEN chars \ similar_chars ELSE chars

\* required_chars, one secrets.choice per selected class
RequiredChars(use_uppercase, use_lowercase, use_digits, use_special, draws) ==
    (IF use_uppercase THEN <<draws.upper>> ELSE <<>>)
    \o (IF use_lowercase THEN <<draws.lower>> ELSE <<>>)
    \o (IF use_digits THEN <<draws.digit>> ELSE <<>>)
    \o (IF use_special THEN <<draws.special>> ELSE <<>>)

Max(a, b) == IF a > b THEN a ELSE b

RemainingLength(length, use_uppercase, use_lowercase, use_digits, use_special) ==
    Max(0, length - Len(RequiredChars(use_uppercase, use_lowercase, use_digits,
                                      use_special,
                                      [upper |-> 0, lower |-> 0, digit |-> 0,
                                       special |-> 0])))

\* a swap that only copies password[j] over password[i]
SwapOverwriting(password, i, j) == [password EXCEPT ![i] = password[j]]

\* password[i], password[j] = password[j], password[i]  (positions from 1)
Swap(password, i, j) ==
    [password EXCEPT ![i] = password[j], ![j] = password[i]]

\* for i in range(len(password) - 1, 0, -1): j = randbelow(i + 1); swap
RECURSIVE Shuffle(_, _, _)
Shuffle(password, i, randbelow) ==
    IF i < 1 THEN password
    ELSE Shuffle(Swap(password, i + 1, randbelow[i] + 1), i - 1, randbelow)

generate_password(length, use_uppercase, use_lowercase, use_digits, use_special, exclude_similar, draws) ==
    LET required_chars == RequiredChars(use_uppercase, use_lowercase, use_digits,
                                        use_special, draws)
        password == draws.free \o required_chars
    IN Str(Shuffle(password, Len(password) - 1, draws.randbelow))

\* the results of randbelow tried for a list of n characters: j = i (every
\* character stays), j = 0, and j = i - 1
ShuffleDraws(n) ==
    {[i \in 1..(n - 1) |-> i], [i \in 1..(n - 1) |-> 0],
     [i \in 1..(n - 1) |-> i - 1]}

\* what secrets.choice may return for a class; nothing is drawn for a class
\* that is not selected
Drawn(selected, alphabet) == IF selected THEN alphabet ELSE {0}

\* generate_and_display_password, from the generator dialog with the length
\* asked by QInputDialog.getInt and the five check boxes
GeneratePassword(length, use_uppercase, use_lowercase, use_digits, use_special, exclude_similar) ==
    /\ generated = NoPassword
    /\ \E upper \in Drawn(use_uppercase, ascii_uppercase),
          lower \in Drawn(use_lowercase, ascii_lowercase),
          digit \in Drawn(use_digits, digits),
          special \in Drawn(use_special, special_chars),
          free \in [1..RemainingLength(length, use_uppercase, use_lowercase,
                                       use_digits, use_special)
                    -> CharPool(use_uppercase, use_lowercase, use_digits,
                                use_special, exclude_similar)] :
         LET n == Len(free) + Len(RequiredChars(use_uppercase, use_lowercase,
                                                use_digits, use_special,
                                                [upper |-> upper, lower |-> lower,
                                                 digit |-> digit,
                                                 special |-> special]))
         IN \E randbelow \in ShuffleDraws(n) :
                generated' =
                    [length |-> length,
                     use_uppercase |-> use_uppercase,
                     use_lowercase |-> use_lowercase,
                     use_digits |-> use_digits,
                     use_special |-> use_special,
                     exclude_similar |-> exclude_similar,
                     password |->
                         generate_password(length, use_uppercase, use_lowercase,
                                           use_digits, use_special, exclude_similar,
                                           [upper |-> upper, lower |-> lower,
                                            digit |-> digit, special |-> special,
                                            free |-> free,
                                            randbelow |-> randbelow])]
    /\ UNCHANGED <<ordered, twin, tables, master, rows, categories, sessionKey,
                   flowVars, open, cipherVars, recordVars>>

\* close_button: the dialog and its line edit go away
CloseGenerator ==
    /\ generated # NoPassword
    /\ generated' = NoPassword
    /\ UNCHANGED <<ordered, twin, tables, master, rows, categories, sessionKey,
                   flowVars, open, cipherVars, recordVars>>

GeneratorLengths == MinLength..MaxLength

NextGenerator ==
    \/ \E length \in GeneratorLengths,
          use_uppercase, use_lowercase, use_digits, use_special,
          exclude_similar \in BOOLEAN :
           GeneratePassword(length, use_uppercase, use_lowercase, use_digits,
                            use_special, exclude_similar)
    \/ CloseGenerator

SpecGenerator == InitCipher /\ [][NextGenerator]_vars

(***************************************************************************)
(* The order of the date records: add_date, move_item_up, move_item_down,  *)
(* delete_item of a shown, unlocked date counter.  Here the table is held  *)
(* with its id and order_index columns in ordered.date_records;            *)
(* ordered.row_id_map is the dialog's map from table row (from 0) to id,   *)
(* ordered.sequence the AUTOINCREMENT counter, ordered.last the handler    *)
(* that ran last.                                                          *)
(***************************************************************************)
EmptyDates ==
    [date_records |-> {}, row_id_map |-> <<>>, sequence |-> 0, last |-> "none"]

\* SELECT COALESCE(MAX(order_index), -1)
MaxOrder(records) ==
    IF records = {} THEN -1
    ELSE CHOOSE m \in {r.order_index : r \in records} :
             \A r \in records : r.order_index <= m

RowOf(records, id) == CHOOSE r \in records : r.id = id

\* UPDATE date_records SET order_index = ? WHERE id = ?
SetOrder(records, order_index, id) ==
    {IF r.id = id THEN [r EXCEPT !.order_index = order_index] ELSE r :
        r \in records}

\* the row_id_map load_dates can build: the ids ORDER BY order_index ASC,
\* rows of equal order_index in either order
Loaded(records) ==
    {m \in [1..Cardinality(records) -> {r.id : r \in records}] :
        /\ \A i, j \in DOMAIN m : i # j => m[i] # m[j]
        /\ \A i, j \in DOMAIN m :
               i < j => RowOf(records, m[i]).order_index
                            <= RowOf(records, m[j]).order_index}

Ordering(next) ==
    /\ "dc" \in open
    /\ state \notin Prompting
    /\ ordered' = next
    /\ UNCHANGED <<generated, twin, tables, master, rows, categories,
                   sessionKey, flowVars, open, cipherVars, recordVars>>

add_date(title, iv1, iv2, failInsert) ==
    /\ ordered.sequence < MaxAdded
    /\ IF strip(title) = EmptyStr \/ failInsert
       THEN Ordering([ordered EXCEPT !.last = "add"])
       ELSE LET inserted ==
                    ordered.date_records
                    \cup {[id |-> ordered.sequence + 1,
                           order_index |-> MaxOrder(ordered.date_records) + 1,
                           title |-> encrypt(strip(title), iv1),
                           date |-> encrypt(DateStr, iv2)]}
            IN \E map \in Loaded(inserted) :
                   Ordering([date_records |-> inserted, row_id_map |-> map,
                             sequence |-> ordered.sequence + 1, last |-> "add"])

\* the two UPDATEs of a move, each committed on its own, then load_dates;
\* fail names the UPDATE that raises
SwapOrder(current_id, other_id, fail, op) ==
    LET current_record == RowOf(ordered.date_records, current_id)
        other_record == RowOf(ordered.date_records, other_id)
        first == SetOrder(ordered.date_records, current_record.order_index,
                          other_id)
        second == SetOrder(first, other_record.order_index, current_id)
    IN IF fail = "first"
       THEN Ordering([ordered EXCEPT !.last = op])
       ELSE IF fail = "second"
       THEN Ordering([ordered EXCEPT !.date_records = first, !.last = op])
       ELSE \E map \in Loaded(second) :
                Ordering([ordered EXCEPT !.date_records = second,
                                         !.row_id_map = map, !.last = op])

move_item_up(row, fail) ==
    /\ row \in 0..(Len(ordered.row_id_map) - 1)
    /\ IF row > 0
       THEN SwapOrder(ordered.row_id_map[row + 1], ordered.row_id_map[row],
                      fail, "up")
       ELSE Ordering([ordered EXCEPT !.last = "up"])

move_item_down(row, fail) ==
    /\ row \in 0..(Len(ordered.row_id_map) - 1)
    /\ IF row < Len(ordered.row_id_map) - 1
       THEN SwapOrder(ordered.row_id_map[row + 1], ordered.row_id_map[row + 2],
                      fail, "down")
       ELSE Ordering([ordered EXCEPT !.last = "down"])

delete_item(row, failDelete) ==
    /\ row \in 0..(Len(ordered.row_id_map) - 1)
    /\ IF failDelete
       THEN Ordering([ordered EXCEPT !.last = "delete"])
       ELSE LET kept == {r \in ordered.date_records :
                            r.id # ordered.row_id_map[row + 1]}
            IN \E map \in Loaded(kept) :
                   Ordering([ordered EXCEPT !.date_records = kept,
                                            !.row_id_map = map,
                                            !.last = "delete"])

InitOrder ==
    LET created == create_master_password_hash("correct-pw", <<"salt", "s1", "">>)
    IN /\ tables = {"master_passwords", "passwords", "categories",
                    "date_records"}
       /\ master = <<created>>
       /\ rows = [t \in Tools |-> {}]
       /\ categories = DefaultCategories
       /\ sessionKey = derive_key_from_master_password("correct-pw", created.salt)
       /\ state = "Unlocked"
       /\ tool = "dc"
       /\ failed_attempts = 0
       /\ rec = <<created>>
       /\ lastEvent = "match"
       /\ submitted = <<"correct-pw">>
       /\ wiped = {}
       /\ open = {"dc"}
       /\ cipherCall = NoCall
       /\ cipherResult = NoResult
       /\ cipherPrev = NoPrev
       /\ info_label = <<>>
       /\ generated = NoPassword
       /\ ordered = EmptyDates
       /\ entered = EmptyStr
       /\ twin = NoTwin
       /\ view = [t \in Tools |-> {}]

NextOrder ==
    \/ \E title \in {EmptyStr, Str(<<116>>)}, iv1, iv2 \in IVs,
          failInsert \in BOOLEAN : add_date(title, iv1, iv2, failInsert)
    \/ \E row \in 0..(MaxAdded - 1), fail \in {"no", "first", "second"} :
           move_item_up(row, fail)
    \/ \E row \in 0..(MaxAdded - 1), fail \in {"no", "first", "second"} :
           move_item_down(row, fail)
    \/ \E row \in 0..(MaxAdded - 1), failDelete \in BOOLEAN :
           delete_item(row, failDelete)

SpecOrder == InitOrder /\ [][NextOrder]_vars

(***************************************************************************)
(* Properties                                                              *)
(***************************************************************************)
ValidSetupInput(input) ==
    /\ Len(input) = 2
    /\ Len(input[1]) >= MinPasswordLength
    /\ input[1] = input[2]

InvalidSetupInput(input) ==
    /\ Len(input) = 2
    /\ (Len(input[1]) < MinPasswordLength \/ input[1] # input[2])

\* C1: a verification flow (one that was handed a stored record) is in
\* Unlocked only if the password it was last given matches that record,
\* whether or not the key slot was already set when the flow started.
C1_UnlockedOnlyOnMatch ==
    (state = "Unlocked" /\ rec # <<>>) =>
        /\ Len(submitted) = 1
        /\ verify_master_password(submitted[1], rec[1].salt,
                                  rec[1].hashed_password)

\* C2: the step that brings failed_attempts to 5 ends the flow in
\* WipedAndLocked, never in Unlocked, for every state of the key slot.
C2_FifthWrongWipes ==
    [][(state = "AwaitingVerification" /\ failed_attempts' = MaxAttempts)
          => state' = "WipedAndLocked"]_vars

\* C3: when the flow ended after five wrong passwords and reported that the
\* data was wiped, the record table of that tool holds no rows, also when
\* a store operation of the wipe failed or the table does not exist.
C3_WipedMeansNoRows ==
    (state = "WipedAndLocked" /\ lastEvent = "wiped") => rows[tool] = {}

\* C4: a tool whose flow reached WipedAndLocked in this process never has a
\* later flow of this process that prompts for, evaluates or accepts a
\* password.
C4_WipedStaysLocked ==
    tool \in wiped => state \notin {"AwaitingVerification", "Unlocked"}

\* C5: the bytes stored in the master-secret record (salt and verifier,
\* decoded from their storage text) never equal the session key in use.
C5_KeyNeverPersisted ==
    sessionKey # None =>
        \A i \in 1..Len(master) :
            /\ b64decode(master[i].salt) # sessionKey
            /\ b64decode(master[i].hashed_password) # sessionKey

\* C6: encrypt or decrypt called while no session key is set ends in the
\* "not unlocked" error and yields neither a token nor a plaintext.
C6_NotUnlockedError ==
    (sessionKey = None /\ cipherCall.op # "none") =>
        /\ cipherResult.kind = "error"
        /\ cipherResult.error = "NotUnlocked"

\* C7: a setup submission that is shorter than 8 characters or differs from
\* its confirmation leaves the flow in AwaitingFirstPassword with no
\* record, no session key and no attempt counted, still taking submissions.
C7_InvalidSetupKeepsState ==
    [][(state = "AwaitingFirstPassword" /\ InvalidSetupInput(submitted'))
          => /\ state' = "AwaitingFirstPassword"
             /\ master' = <<>>
             /\ sessionKey' = None
             /\ failed_attempts' = failed_attempts
             /\ lastEvent' \in {"tooShort", "mismatch"}
             /\ open' = open]_vars

C7_Witness ==
    /\ state = "AwaitingFirstPassword"
    /\ InvalidSetupInput(submitted)
    /\ lastEvent = "mismatch"

\* C8 as stated: every valid setup submission against a store without a
\* record creates the one record (salt, deriveKey(password, salt)), sets the
\* session key to deriveKey(password, salt) and ends in Unlocked.
C8_ValidSetupUnlocks ==
    [][(state = "AwaitingFirstPassword" /\ master = <<>>
            /\ ValidSetupInput(submitted'))
          => /\ Len(master') = 1
             /\ b64decode(master'[1].hashed_password) =
                    DeriveKey(submitted'[1], b64decode(master'[1].salt))
             /\ sessionKey' =
                    DeriveKey(submitted'[1], b64decode(master'[1].salt))
             /\ state' = "Unlocked"]_vars

\* C8 amended: the same, for the valid submissions whose INSERT the store
\* accepts; when the INSERT raises the flow reports it and stays in
\* AwaitingFirstPassword with no record and no session key.
C8_ValidSetupUnlocksWhenStored ==
    [][(state = "AwaitingFirstPassword" /\ master = <<>>
            /\ ValidSetupInput(submitted'))
          => IF lastEvent' = "saveFailed"
             THEN /\ state' = "AwaitingFirstPassword"
                  /\ master' = <<>>
                  /\ sessionKey' = None
             ELSE /\ Len(master') = 1
                  /\ b64decode(master'[1].hashed_password) =
                         DeriveKey(submitted'[1], b64decode(master'[1].salt))
                  /\ sessionKey' =
                         DeriveKey(submitted'[1], b64decode(master'[1].salt))
                  /\ state' = "Unlocked"]_vars

C8_Witness ==
    /\ state = "Unlocked"
    /\ lastEvent = "saved"
    /\ ValidSetupInput(submitted)
    /\ Len(master) = 1
    /\ sessionKey # None

\* C9: the master-secret table never holds more than one record, and a
\* record once created is never changed or deleted, whatever flows of the
\* two tools run.
C9_OneRecordNeverChanged ==
    [][/\ Len(master') <= 1
       /\ master # <<>> => master' = master]_vars

C9_Witness ==
    /\ Len(master) = 1
    /\ wiped # {}
    /\ tool = "dc"
    /\ state = "Unlocked"

\* C10: cancelling the verification prompt ends the flow in Locked, which
\* is not the wipe outcome: the attempt counter, the record rows, the key
\* slot and the master-secret record are unchanged.
C10_CancelChangesNothing ==
    [][(state = "AwaitingVerification" /\ lastEvent' = "cancel")
          => /\ state' = "Locked"
             /\ failed_attempts' = failed_attempts
             /\ rows' = rows
             /\ sessionKey' = sessionKey
             /\ master' = master
             /\ wiped' = wiped]_vars

C10_Witness ==
    /\ state = "Locked"
    /\ lastEvent = "cancel"
    /\ failed_attempts > 0
    /\ rows[tool] # {}

\* C11: a dialog comes to be shown only by the step in which its flow
\* returned success; a flow that ends cancelled, in a store error or in the
\* wipe shows nothing, lists nothing and creates no record table; record
\* rows are written (the wipe apart) and listed only through a shown dialog.
C11_ShownOnlyWhenUnlocked ==
    [][/\ open' # open /\ open' # {}
          => (state' = "Unlocked" /\ open' = open \cup {tool'})
       /\ (state' # state /\ state' \in {"Abandoned", "Locked", "Error",
                                          "WipedAndLocked"})
          => (/\ open' = open
              /\ view' = view
              /\ "date_records" \in tables' => "date_records" \in tables
              /\ state' # "WipedAndLocked" => rows' = rows)
       /\ \A t \in Tools :
            /\ rows'[t] # rows[t]
                  => (t \in open \/ state' = "WipedAndLocked")
            /\ view'[t] # view[t]
                  => (t \in open' \/ state' = "NoVaultYet")]_vars

C11_Witness ==
    /\ state \in {"Abandoned", "Locked", "Error", "WipedAndLocked"}
    /\ tool \notin open
    /\ master # <<>>
    /\ \E t \in Tools : rows[t] # {}

\* C12: the key slot is empty at process start; it changes only in a step
\* that stored a new master password or matched the stored one, and then
\* holds the key derived from the submitted password and the stored salt;
\* it is emptied only by the end of the process.
C12_KeyWrittenOnlyOnSuccess ==
    /\ [](state = "NoVaultYet" => sessionKey = None)
    /\ [][sessionKey' # sessionKey
            => \/ /\ lastEvent' \in {"saved", "match"}
                  /\ state' = "Unlocked"
                  /\ sessionKey' =
                         DeriveKey(submitted'[1], b64decode(master'[1].salt))
               \/ /\ sessionKey' = None
                  /\ state' = "NoVaultYet"]_vars

C12_Witness ==
    /\ sessionKey # None
    /\ state = "AwaitingVerification"
    /\ lastEvent = "wrong"
    /\ failed_attempts > 0

\* the token is what encrypt returns for some text and IV under this key
ProducedUnder(token, key) ==
    \E t \in CipherTexts, iv \in IVs : token = encrypt_with(t, key, iv)

\* C13: decrypt of a token that encrypt produced under the key now in use
\* returns the text that was encrypted, for every text (the empty one and
\* texts ending on either side of a block boundary included) and every IV.
C13_RoundTrip ==
    cipherCall.op = "decrypt" =>
        \A t \in CipherTexts, iv \in IVs :
            cipherCall.token = encrypt_with(t, cipherCall.key, iv) =>
                /\ cipherResult.kind = "text"
                /\ cipherResult.text = t

C13_Witness ==
    /\ cipherCall.op = "decrypt"
    /\ cipherCall.key \in CipherKeys
    /\ cipherCall.token =
           encrypt_with(Str(<<233, 8364>> \o [i \in 1..11 |-> 97]),
                        cipherCall.key, "iv2")
    /\ cipherResult.text = Str(<<233, 8364>> \o [i \in 1..11 |-> 97])

\* C14: decrypt of a token that encrypt produced under another key than the
\* one now in use ends in an error and returns no text.
C14_WrongKeyRaises ==
    (/\ cipherCall.op = "decrypt"
     /\ \E k \in CipherKeys \cup {DefaultKey} :
            k # cipherCall.key /\ ProducedUnder(cipherCall.token, k))
        => cipherResult.kind = "error"

\* C17: a setup submission whose INSERT of the master-secret record raises
\* leaves the key slot unset and the table without a record, shows no
\* dialog and keeps the flow in the prompt.
C17_FailedInsertLeavesNothing ==
    [][(state = "AwaitingFirstPassword" /\ lastEvent' = "saveFailed")
          => /\ sessionKey' = None
             /\ master' = <<>>
             /\ state' = "AwaitingFirstPassword"
             /\ open' = open
             /\ tables' = tables]_vars

C17_Witness ==
    /\ state = "AwaitingFirstPassword"
    /\ lastEvent = "saveFailed"
    /\ ValidSetupInput(submitted)
    /\ sessionKey = None
    /\ master = <<>>

\* C18: the step that wipes after the fifth wrong password leaves the
\* master-secret record, the rows of the other tool, the categories and
\* the set of tables as they were.
C18_WipeOnlyOwnRows ==
    [][(state = "AwaitingVerification" /\ state' = "WipedAndLocked")
          => /\ master' = master
             /\ categories' = categories
             /\ tables' = tables
             /\ \A t \in Tools \ {tool} : rows'[t] = rows[t]]_vars

C18_Witness ==
    /\ state = "WipedAndLocked"
    /\ lastEvent = "wiped"
    /\ RecordTable(tool) \in tables
    /\ rows[tool] = {}
    /\ \E t \in Tools \ {tool} : rows[t] # {}
    /\ Len(master) = 1
    /\ categories # {}

\* C19: a step that matches the stored password leaves the master-secret
\* record, the record rows and the categories as they were and sets the
\* key slot to the value the record's verifier encodes, so that every
\* match against one record sets the same key.
C19_MatchChangesNothingStored ==
    [][(state = "AwaitingVerification" /\ lastEvent' = "match")
          => /\ master' = master
             /\ rows' = rows
             /\ categories' = categories
             /\ sessionKey' = b64decode(master[1].hashed_password)
             /\ sessionKey # None => sessionKey' = sessionKey]_vars

C19_Witness ==
    /\ state = "Unlocked"
    /\ lastEvent = "match"
    /\ wiped # {}
    /\ sessionKey = b64decode(master[1].hashed_password)

\* the value is what encrypt returns under the key of the master record
\* for one of these texts, and is none of the texts
IsEncryptedToken(value, texts) ==
    /\ value \notin texts
    /\ \E plaintext \in texts, iv \in IVs :
           value = encrypt_with(plaintext,
                                b64decode(master[1].hashed_password), iv)

SecretColumnsAreTokens(t, r) ==
    IF t = "pm"
    THEN IsEncryptedToken(r.encrypted_password, RecordPasswords)
    ELSE /\ IsEncryptedToken(r.title, {strip(title) : title \in Titles})
         /\ IsEncryptedToken(r.date, {DateStr})

\* C16 as stated: every stored secret column holds a token made by encrypt
\* and not the text, and a row written by a form holds in its non-secret
\* title exactly the text typed into the form.
C16_TokensAndTitleAsTyped ==
    /\ [](\A t \in Tools : \A r \in rows[t] : SecretColumnsAreTokens(t, r))
    /\ [][\A r \in rows'["pm"] \ rows["pm"] : r.title = entered']_vars

\* C16 as the code has it: every stored secret column holds a token made
\* by encrypt and not the text, and a row written by a form holds in its
\* non-secret title the typed text without surrounding whitespace.
C16_TokensAndTitleStripped ==
    /\ [](\A t \in Tools : \A r \in rows[t] : SecretColumnsAreTokens(t, r))
    /\ [][\A r \in rows'["pm"] \ rows["pm"] : r.title = strip(entered')]_vars

C16_Witness ==
    /\ entered = Str(<<32, 116, 233>>)
    /\ \E r \in rows["pm"] : r.title = Str(<<116, 233>>)
    /\ \E r \in rows["dc"] : r.title = encrypt(Str(<<116>>), "iv2")

\* both tokens of the date row are what encrypt returns under the key in
\* use for the title "t" and the date
ReadableDate(r) ==
    \E iv1, iv2 \in IVs :
        /\ r.title = encrypt(Str(<<116>>), iv1)
        /\ r.date = encrypt(DateStr, iv2)

\* a token of the row holds an IV and no ciphertext
TruncatedDate(r) ==
    Len(b64decode(r.title)) < 2 \/ Len(b64decode(r.date)) < 2

\* C15: the listing of the date table holds one entry for every stored row;
\* an entry whose decryption failed carries the error and the placeholder
\* in both secret cells, a row without ciphertext always fails, and every
\* row written under the key in use shows its title and date whatever the
\* other rows are.  The password table lists every row without decrypting;
\* a click on a row written under the key in use shows its password, and
\* only a click on another row reports an error.
C15_FailedRowDoesNotAbortListing ==
    /\ {e.row : e \in view["dc"]} = rows["dc"]
    /\ \A e \in view["dc"] :
          /\ e.error <=> e.title = DecryptFailed
          /\ e.error <=> e.secret = DecryptFailed
          /\ TruncatedDate(e.row) => e.error
          /\ ReadableDate(e.row)
                => (e.title = Str(<<116>>) /\ e.secret = DateStr /\ ~e.error)
    /\ {e.row : e \in view["pm"]} = rows["pm"]
    /\ \A e \in view["pm"] :
          /\ e.title = e.row.title
          /\ e.row.encrypted_password \in
                 {encrypt(Str(<<112, 32>>), iv) : iv \in IVs}
                => (e.secret \in {Mask, Str(<<112, 32>>)} /\ ~e.error)

C15_Witness ==
    /\ \E e \in view["dc"] : e.error /\ e.title = DecryptFailed
    /\ \E e \in view["dc"] :
          ~e.error /\ e.title = Str(<<116>>) /\ e.secret = DateStr
    /\ \E e \in view["pm"] : e.error /\ e.secret = Mask
    /\ \E e \in view["pm"] : e.secret = Str(<<112, 32>>)

\* C20: run on copies of one store and key slot with the same submissions,
\* cancellations and store failures, the flow of the password manager and
\* the flow of the date counter are in the same state with the same
\* outcome, attempt count, session key and master-secret record; each
\* leaves the other's record table alone, and where both tables held rows,
\* the one has emptied its table exactly when the other has.
C20_CopiesDoNotDrift ==
    /\ twin.pm.state = twin.dc.state
    /\ twin.pm.outcome = twin.dc.outcome
    /\ twin.pm.failed_attempts = twin.dc.failed_attempts
    /\ twin.pm.key = twin.dc.key
    /\ twin.pm.master = twin.dc.master
    /\ twin.pm.rows["pm"] \subseteq twin.dc.rows["pm"]
    /\ twin.dc.rows["dc"] \subseteq twin.pm.rows["dc"]
    /\ (twin.dc.rows["pm"] # {} /\ twin.pm.rows["dc"] # {})
          => (twin.pm.rows["pm"] = {} <=> twin.dc.rows["dc"] = {})

C20_Witness ==
    /\ twin.pm.outcome = "wiped"
    /\ twin.dc.outcome = "wiped"
    /\ twin.pm.failed_attempts = MaxAttempts
    /\ twin.pm.rows["pm"] = {}
    /\ twin.pm.rows["dc"] # {}
    /\ twin.dc.rows["dc"] = {}
    /\ twin.dc.rows["pm"] # {}

\* the last two direct calls were encrypt with the same text under one key
SameTextTwice ==
    /\ cipherPrev.call.op = "encrypt"
    /\ cipherCall.op = "encrypt"
    /\ cipherPrev.call.text = cipherCall.text
    /\ cipherPrev.call.key = cipherCall.key

BothDecryptBack ==
    \A noise \in Noises :
        /\ decrypt_with(cipherPrev.result.token, cipherCall.key, noise).text
               = cipherCall.text
        /\ decrypt_with(cipherPrev.result.token, cipherCall.key, noise).kind
               = "text"
        /\ decrypt_with(cipherResult.token, cipherCall.key, noise).text
               = cipherCall.text
        /\ decrypt_with(cipherResult.token, cipherCall.key, noise).kind
               = "text"

\* C21: two successive encrypt calls on the same text under the same key
\* return different tokens, and both tokens decrypt back to the text.
C21_SuccessiveTokensDiffer ==
    SameTextTwice =>
        /\ cipherPrev.result.token # cipherResult.token
        /\ BothDecryptBack

\* C21 as amended: the two tokens differ exactly when the two calls drew
\* different initialization values, and both decrypt back to the text.
C21_TokensDifferWithTheIVs ==
    SameTextTwice =>
        /\ (cipherPrev.result.token # cipherResult.token)
               <=> (cipherPrev.call.iv # cipherCall.iv)
        /\ BothDecryptBack

C21_Witness ==
    /\ SameTextTwice
    /\ cipherCall.text = Str([i \in 1..BlockSize |-> 97])
    /\ cipherCall.key \in CipherKeys
    /\ cipherPrev.call.iv # cipherCall.iv
    /\ cipherPrev.result.token # cipherResult.token

Chars(text) == {text[2][k] : k \in 1..Len(text[2])}

\* C22: a password generated with exclude_similar set holds none of the
\* characters i l 1 L o 0 O, whatever the class flags and the length.
C22_NoSimilarCharacters ==
    (generated # NoPassword /\ generated.exclude_similar) =>
        Chars(generated.password) \cap similar_chars = {}

Submits == state = "AwaitingVerification" /\ submitted' # <<>>

\* the submitted text does not pass the verifier against the record read
FailsVerifier ==
    ~verify_master_password(submitted'[1], rec[1].salt, rec[1].hashed_password)

\* C24: in a verification flow the failed-attempt counter starts at 0 and
\* stays within 0..5; it grows only by one, and only on a submission of a
\* non-empty text that fails the verifier; an empty submission leaves the
\* counter and the prompt as they are.
C24_CounterCountsFailures ==
    /\ [](failed_attempts \in 0..MaxAttempts)
    /\ [][/\ (state # "AwaitingVerification" /\ state' = "AwaitingVerification")
                 => failed_attempts' = 0
          /\ (state = "AwaitingVerification" /\ failed_attempts' > failed_attempts)
                 => /\ failed_attempts' = failed_attempts + 1
                    /\ Submits
                    /\ submitted'[1] # ""
                    /\ FailsVerifier
          /\ (Submits /\ submitted'[1] = "")
                 => /\ UNCHANGED <<failed_attempts, state, sessionKey, rows>>
                    /\ lastEvent' = "empty"]_vars

C24_Witness ==
    /\ state = "AwaitingVerification"
    /\ failed_attempts = MaxAttempts - 1
    /\ submitted = <<"">>
    /\ lastEvent = "empty"

\* C25: a wrong password that brings the counter to n+1 < 5 leaves the flow
\* in the verification prompt, which then reports 5 - (n+1) attempts left;
\* the prompt reports 5 when the flow starts.
C25_RemainingReported ==
    [][/\ (/\ state = "AwaitingVerification"
           /\ failed_attempts' = failed_attempts + 1
           /\ failed_attempts' < 5)
              => /\ state' = "AwaitingVerification"
                 /\ info_label' = <<5 - failed_attempts'>>
       /\ (state # "AwaitingVerification" /\ state' = "AwaitingVerification")
              => info_label' = <<5>>]_vars

C25_Witness ==
    /\ state = "AwaitingVerification"
    /\ lastEvent = "wrong"
    /\ failed_attempts = 4
    /\ info_label = <<1>>

\* C26: a start of the flow leaves the master-secret table in existence and
\* enters the setup prompt exactly when the table holds no record, the
\* verification prompt with no attempt used exactly when it holds one; the
\* setup prompt is never up while a record exists.
C26_StartBranchesOnRecord ==
    /\ [](state = "AwaitingFirstPassword" => master = <<>>)
    /\ [][(state \notin Prompting /\ state' \in Prompting)
              => /\ "master_passwords" \in tables'
                 /\ state' = "AwaitingFirstPassword" <=> master = <<>>
                 /\ state' = "AwaitingVerification" <=> master # <<>>
                 /\ state' = "AwaitingVerification"
                        => failed_attempts' = 0 /\ rec' = <<master[1]>>]_vars

C26_Witness ==
    /\ state = "AwaitingVerification"
    /\ lastEvent = "start"
    /\ failed_attempts = 0
    /\ Len(master) = 1
    /\ wiped # {}

\* C27: a submission of a non-empty text either ends the verification flow
\* in Unlocked or WipedAndLocked or uses up one of the attempts, and the
\* fifth one always ends it, so a flow sees at most 5 of them; a flow ends
\* in Unlocked, cancelled or WipedAndLocked; rows are wiped only by the
\* step that brings the counter to 5.
C27_EndsWithinFiveSubmissions ==
    /\ [](state = "AwaitingVerification" => failed_attempts < MaxAttempts)
    /\ [][/\ (Submits /\ submitted'[1] # "")
                 => \/ state' \in {"Unlocked", "WipedAndLocked"}
                    \/ /\ state' = "AwaitingVerification"
                       /\ failed_attempts' = failed_attempts + 1
                       /\ failed_attempts' < MaxAttempts
          /\ (state = "AwaitingVerification" /\ state' # "AwaitingVerification")
                 => \/ state' \in {"Unlocked", "WipedAndLocked", "Locked"}
                    \/ state' = "NoVaultYet" /\ open' = {}
          /\ (\/ wiped' # wiped /\ wiped' # {}
              \/ \E t \in Tools : rows[t] # {} /\ rows'[t] = {})
                 => /\ Submits
                    /\ failed_attempts' = MaxAttempts
                    /\ failed_attempts = MaxAttempts - 1]_vars

C27_Witness ==
    /\ state = "WipedAndLocked"
    /\ failed_attempts = MaxAttempts
    /\ lastEvent = "wiped"
    /\ tool \in wiped

\* the tokens a row holds in its secret columns
SecretTokens(t, r) == IF t = "pm" THEN {r.encrypted_password} ELSE {r.title, r.date}

\* deriveKey(p, salt of the first master-secret record) for the passwords
\* p that record verifies
KeysOfFirstRecord ==
    IF master = <<>> THEN {}
    ELSE {derive_key_from_master_password(p, master[1].salt) :
            p \in {q \in Passwords :
                      verify_master_password(q, master[1].salt,
                                             master[1].hashed_password)}}

\* C28: through unlock flows, record writes and restarts of the process,
\* every token in a secret column was made under the key derived from the
\* master password and the salt of the first master-secret record, and in
\* every session that has a dialog shown each of them decrypts to a text.
C28_TokensUnderTheRecordKey ==
    /\ \A t \in Tools : \A r \in rows[t] : \A token \in SecretTokens(t, r) :
           \E key \in KeysOfFirstRecord : ReadableUnder(token, key)
    /\ open # {} =>
           /\ get_encryption_key \in KeysOfFirstRecord
           /\ \A t \in Tools : \A r \in rows[t] : \A token \in SecretTokens(t, r) :
                  \A noise \in Noises : decrypt(token, noise).kind = "text"
           /\ \A e \in view["dc"] : ~e.error

C28_Witness ==
    /\ rows["dc"] # {}
    /\ rows["pm"] # {}
    /\ open = {"pm"}
    /\ tool = "pm"
    /\ lastEvent = "match"
    /\ wiped = {}

\* the record the flow reads is not the text that was stored
Damaged(record) == record # StoredRecord

\* a column of the record does not decode, or decodes to other bytes than
\* the ones stored
DecodesOtherwise(record) ==
    \/ ~Decodable(record.salt)
    \/ ~Decodable(record.hashed_password)
    \/ b64decode(record.salt) # b64decode(StoredRecord.salt)
    \/ b64decode(record.hashed_password) # b64decode(StoredRecord.hashed_password)

\* the submission was answered as a wrong password: counted, no key set,
\* nothing shown
CountedAsFailure ==
    /\ failed_attempts' = failed_attempts + 1
    /\ lastEvent' \in {"wrong", "wiped"}
    /\ sessionKey' = sessionKey
    /\ open' = open

Swapped(records, a, b) ==
    {IF r.id = a THEN [r EXCEPT !.order_index = RowOf(records, b).order_index]
     ELSE IF r.id = b
     THEN [r EXCEPT !.order_index = RowOf(records, a).order_index]
     ELSE r : r \in records}

\* C30: the rows of date_records have pairwise distinct order_index values;
\* an add gives the new row max(order_index) + 1, or 0 in an empty table;
\* a move either exchanges the order_index of two rows adjacent in the
\* table widget or, when it fails, changes nothing, and never touches
\* another row, a title or a date.
C30_DistinctOrderAndSwaps ==
    /\ [](\A r1, r2 \in ordered.date_records :
              r1.id # r2.id => r1.order_index # r2.order_index)
    /\ [][/\ (ordered'.last = "add"
              /\ ordered'.date_records # ordered.date_records)
                 => \E new \in ordered'.date_records \ ordered.date_records :
                        /\ ordered'.date_records
                               = ordered.date_records \cup {new}
                        /\ new.order_index =
                               IF ordered.date_records = {} THEN 0
                               ELSE MaxOrder(ordered.date_records) + 1
          /\ ordered'.last \in {"up", "down"}
                 => \/ ordered'.date_records = ordered.date_records
                    \/ \E i \in 1..(Len(ordered.row_id_map) - 1) :
                           ordered'.date_records =
                               Swapped(ordered.date_records,
                                       ordered.row_id_map[i],
                                       ordered.row_id_map[i + 1])]_vars

====
